---------------------------- MODULE Spec2Model ----------------------------
(***************************************************************************)
(* Model of the Surface aggregator client code:                            *)
(*   - the diagnostic passthrough endpoint (surfacegen5_acpi_ssh_sysfs.c), *)
(*   - the battery / AC power-supply clients (surface_sam_sid_power.c).    *)
(*                                                                         *)
(* The controller itself (request transport, notifier registry) is not     *)
(* part of the sources; it appears as an environment whose answers are     *)
(* drawn from small sets.                                                  *)
(***************************************************************************)
EXTENDS Integers, Sequences, FiniteSets, TLC

(***************************************************************************)
(* Scaled sizes.  The header that sets SURFACEGEN5_MAX_RQST_PAYLOAD and    *)
(* SURFACEGEN5_MAX_RQST_RESPONSE is not among the sources; the code only   *)
(* uses them symbolically, and the model takes small values for them.      *)
(* SIZE_BITS scales the width of size_t (arithmetic is done modulo         *)
(* 2^SIZE_BITS).                                                           *)
(***************************************************************************)
MAX_RQST_PAYLOAD == 2

MAX_RQST_RESPONSE == 2

SIZE_BITS == 16

VARIABLES
    \* ---- passthrough endpoint -------------------------------------------
    charSigned,     \* the build: TRUE when plain char is signed (x86)
    buf_sysfs,      \* sg5_ssh_debug_rqst_buf_sysfs, index 0..MAX_RQST_RESPONSE
    buf_pld,        \* sg5_ssh_debug_rqst_buf_pld,   index 0..MAX_RQST_PAYLOAD-1
    buf_res,        \* sg5_ssh_debug_rqst_buf_res,   index 0..MAX_RQST_RESPONSE-1
    oob,            \* bytes written outside a buffer: set of <<buffer, index>>
    oops,           \* a memory fault has ended the calling thread
    call,           \* the last rqst_read / rqst_write call: arguments and result
    \* ---- battery and AC clients ------------------------------------------
    clock,          \* jiffies, and the ticks since bat->timestamp was last set
    bat,            \* struct spwr_battery_device: sta, bix, bst, alarm, timestamp
    breg,           \* what the battery has registered: psy, alarm file, lock
    workPending,    \* bat->update_work is scheduled
    bdev,           \* the battery platform device: "unbound" or "bound"
    rmPc,           \* steps of spwr_battery_unregister done by a running remove
    ac,             \* struct spwr_ac_device and its registrations
    nf,             \* the controller's notifier list, in call order
    op,             \* the last operation of the power clients and its result
    hazard,         \* faults seen so far (use after unregister, deadlock, ...)
    teardown,       \* the steps of the last spwr_battery_unregister, in order
    \* ---- thermal clients -------------------------------------------------
    tmp,            \* the build, the sensors bitfield, thermal zones, hwmon device
    \* ---- the battery's lock ----------------------------------------------
    lk              \* bat->lock, the position of each thread, the last access

sysfsVars == <<charSigned, buf_sysfs, buf_pld, buf_res, oob, oops, call>>

powerVars == <<clock, bat, breg, workPending, bdev, rmPc, ac, nf, op, hazard,
               teardown>>

thermalVars == <<tmp>>

lockVars == <<lk>>

vars == <<sysfsVars, powerVars, thermalVars, lockVars>>

-----------------------------------------------------------------------------
(***************************************************************************)
(* Bytes and C integer conversions                                         *)
(***************************************************************************)

\* plain char promoted to int: sign-extended when char is signed
CharToInt(b) == IF charSigned /\ b >= 128 THEN b - 256 ELSE b

\* conversion of an int to size_t
SizeT(x) == x % (2 ^ SIZE_BITS)

\* conversion to u8 / storing into a char
U8(x) == x % 256

ZeroBuf(n) == [i \in 0..(n - 1) |-> 0]

\* memcpy(dst + doff, src + soff, n), restricted to the bytes inside dst
MemCpy(dst, doff, src, soff, n) ==
    [i \in DOMAIN dst |->
        IF i >= doff /\ i < doff + n THEN src[i - doff + soff] ELSE dst[i]]

\* memset(dst + doff, v, n), restricted to the bytes inside dst
MemSet(dst, doff, v, n) ==
    [i \in DOMAIN dst |-> IF i >= doff /\ i < doff + n THEN v ELSE dst[i]]

\* the bytes a memcpy/memset of n bytes at dst + doff writes outside dst
Overrun(name, dst, doff, n) ==
    {<<name, i>> : i \in {j \in doff..(doff + n - 1) : j \notin DOMAIN dst}}


-----------------------------------------------------------------------------
(***************************************************************************)
(* Results of a call: a byte count on success, an errno otherwise          *)
(***************************************************************************)
Ok(n) == [ok |-> TRUE, n |-> n, err |-> "none"]

Err(e) == [ok |-> FALSE, n |-> 0, err |-> e]

-----------------------------------------------------------------------------
(***************************************************************************)
(* Passthrough endpoint: surfacegen5_acpi_ssh_sysfs.c                      *)
(***************************************************************************)

\* size of the bin attribute and of sg5_ssh_debug_rqst_buf_sysfs
SysfsSize == MAX_RQST_RESPONSE + 1

NoRqst == [tc |-> 0, iid |-> 0, cid |-> 0, snc |-> 0, cdl |-> 0,
           pld |-> <<>>, cap |-> 0]

\* rqst_read: the bounds test
rqst_read_rejects(offs, count) ==
    offs < 0 \/ SizeT(count + offs) > MAX_RQST_RESPONSE

\* rqst_read: result and the bytes copied to the caller
rqst_read(offs, count) ==
    IF rqst_read_rejects(offs, count)
    THEN [ret |-> Err("EINVAL"), out |-> <<>>]
    ELSE [ret |-> Ok(count),
          out |-> [j \in 1..count |-> buf_sysfs[offs + j - 1]]]

\* rqst_write: the two argument checks; buf[4] is read whatever count is
rqst_write_rejects(buf, offs, count) ==
    \/ offs # 0
    \/ count > MAX_RQST_PAYLOAD + 5
    \/ SizeT(CharToInt(buf[4]) + 5) # count

\* rqst_write: the request structure filled from the written bytes; pld is
\* the payload buffer after the copy, of which the request uses cdl bytes
BuildRqstSwapped(buf, pld) ==
    [tc  |-> U8(buf[0]), iid |-> U8(buf[2]), cid |-> U8(buf[1]),
     snc |-> U8(buf[3]), cdl |-> U8(buf[4]),
     pld |-> [j \in 1..U8(buf[4]) |-> pld[j - 1]],
     cap |-> MAX_RQST_RESPONSE]

BuildRqst(buf, pld) ==
    [tc  |-> U8(buf[0]), iid |-> U8(buf[1]), cid |-> U8(buf[2]),
     snc |-> U8(buf[3]), cdl |-> U8(buf[4]),
     pld |-> [j \in 1..U8(buf[4]) |-> pld[j - 1]],
     cap |-> MAX_RQST_RESPONSE]

\* rqst_write: the response record written back after a successful request
StoreResponse(sysfs, data, len) ==
    LET a == [sysfs EXCEPT ![0] = U8(len)]
        b == MemCpy(a, 1, data, 0, len)
    IN  MemSet(b, len + 1, 0, MAX_RQST_RESPONSE + 1 - len)

StoreOverrun(sysfs, len) ==
    Overrun("sysfs", sysfs, len + 1, MAX_RQST_RESPONSE + 1 - len)

\* a write that stores the record whatever the status of the request
rqst_write_store_always(sysfs, data, status, len) ==
    StoreResponse(sysfs, data, len)

\* rqst_write after surfacegen5_ec_rqst: if (status) return status, before
\* anything is written to the record
rqst_write_store(sysfs, data, status, len) ==
    IF status # "ok" THEN sysfs ELSE StoreResponse(sysfs, data, len)

(***************************************************************************)
(* surfacegen5_ec_rqst (controller, not among the sources): it returns a   *)
(* status and, in the caller's result buffer, len <= cap response bytes.   *)
(***************************************************************************)
ResByte(q, j) == IF q = 0 THEN 65 + j ELSE 255 - j

EcOutcomes ==
    {[status |-> st, len |-> l, q |-> 0] :
        st \in {"ok", "EIO"}, l \in 0..MAX_RQST_RESPONSE}

\* the result buffer after the controller stored its response
EcStore(res, ec) ==
    [i \in DOMAIN res |-> IF i < ec.len THEN ResByte(ec.q, i) ELSE res[i]]

(***************************************************************************)
(* Inputs of a write.  buf is the kernel buffer as rqst_write sees it:     *)
(* bytes 0..count-1 are the caller's, bytes from count on (rqst_write      *)
(* reads buf[4] and buf[0..3] even when count < 5) are whatever the        *)
(* allocation held.                                                        *)
(***************************************************************************)
HdrByte(h, i) ==
    IF h = 0 THEN i + 1
    ELSE CASE i = 0 -> 129 [] i = 1 -> 0 [] i = 2 -> 255 [] OTHER -> 1

PldByte(p, j) == IF p = 0 THEN 16 + j ELSE 200 - j

\* the write requests tried: every count and length byte at offset 0, and
\* at a non-zero offset the writes that are well-formed otherwise
WriteArgs ==
    {<<0, c, l>> : c \in 0..(MAX_RQST_PAYLOAD + 6),
                   l \in (0..(MAX_RQST_PAYLOAD + 1)) \cup {128, 252, 255}}
    \cup {<<1, l + 5, l>> : l \in 0..(MAX_RQST_PAYLOAD + 1)}

InputBuf(h, l, p, count) ==
    [i \in 0..((IF count < 5 THEN 5 ELSE count) - 1) |->
        IF i < 4 THEN HdrByte(h, i)
        ELSE IF i = 4 THEN l ELSE PldByte(p, i - 5)]

-----------------------------------------------------------------------------
SysfsInit ==
    /\ charSigned \in BOOLEAN
    /\ buf_sysfs = ZeroBuf(SysfsSize)
    /\ buf_pld = ZeroBuf(MAX_RQST_PAYLOAD)
    /\ buf_res = ZeroBuf(MAX_RQST_RESPONSE)
    /\ oob = {}
    /\ oops = FALSE
    /\ call = [op |-> "none", offs |-> 0, count |-> 0, buf |-> <<>>,
               ret |-> Ok(0), out |-> <<>>, submitted |-> FALSE,
               rqst |-> NoRqst, ec |-> [status |-> "ok", len |-> 0, q |-> 0]]

\* a read of the bin attribute
RqstRead ==
    /\ ~oops
    /\ \E offs \in (-1)..(SysfsSize + 1), count \in 0..(SysfsSize + 1) :
         LET r == rqst_read(offs, count)
         IN  call' = [op |-> "read", offs |-> offs, count |-> count,
                      buf |-> <<>>, ret |-> r.ret, out |-> r.out,
                      submitted |-> FALSE, rqst |-> NoRqst,
                      ec |-> [status |-> "ok", len |-> 0, q |-> 0]]
    /\ UNCHANGED <<powerVars, thermalVars, lockVars, charSigned, buf_sysfs, buf_pld, buf_res, oob, oops>>

\* a write that one of the argument checks refuses
RqstWriteRejected ==
    /\ ~oops
    /\ \E a \in WriteArgs :
         LET offs  == a[1]
             count == a[2]
             buf   == InputBuf(0, a[3], 0, count)
         IN  /\ rqst_write_rejects(buf, offs, count)
             /\ call' = [op |-> "write", offs |-> offs, count |-> count,
                         buf |-> buf, ret |-> Err("EINVAL"), out |-> <<>>,
                         submitted |-> FALSE, rqst |-> NoRqst,
                         ec |-> [status |-> "ok", len |-> 0, q |-> 0]]
    /\ UNCHANGED <<powerVars, thermalVars, lockVars, charSigned, buf_sysfs, buf_pld, buf_res, oob, oops>>

\* a write that passes the checks with count < 5: count - 5 wraps as a
\* size_t and the payload memcpy runs far beyond both buffers until it
\* faults; the payload buffer and what lies behind it are overwritten
\* with whatever followed the source
RqstWriteFault ==
    /\ ~oops
    /\ \E a \in WriteArgs :
         LET offs  == a[1]
             count == a[2]
             buf   == InputBuf(0, a[3], 0, count)
             n     == SizeT(count - 5)
         IN  /\ ~rqst_write_rejects(buf, offs, count)
             /\ n > MAX_RQST_PAYLOAD
             /\ \E g \in 0..1 :
                  buf_pld' = [i \in DOMAIN buf_pld |-> PldByte(g, i)]
             /\ oob' = oob \cup {<<"pld", MAX_RQST_PAYLOAD>>}
             /\ oops' = TRUE
             /\ call' = [op |-> "write", offs |-> offs, count |-> count,
                         buf |-> buf, ret |-> Err("FAULT"), out |-> <<>>,
                         submitted |-> FALSE, rqst |-> NoRqst,
                         ec |-> [status |-> "ok", len |-> 0, q |-> 0]]
    /\ UNCHANGED <<powerVars, thermalVars, lockVars, charSigned, buf_sysfs, buf_res>>

\* a write that passes the checks and is handed to the controller
RqstWriteSubmit ==
    /\ ~oops
    /\ \E a \in WriteArgs, h \in 0..1, ec \in EcOutcomes :
         LET offs  == a[1]
             count == a[2]
             buf   == InputBuf(h, a[3], 0, count)
             n     == SizeT(count - 5)
             pld == MemCpy(buf_pld, 0, buf, 5, n)
         IN  /\ ~rqst_write_rejects(buf, offs, count)
             /\ n <= MAX_RQST_PAYLOAD
             /\ buf_pld' = pld
             /\ buf_res' = EcStore(buf_res, ec)
             /\ buf_sysfs' = rqst_write_store(buf_sysfs, buf_res', ec.status, ec.len)
             /\ IF ec.status # "ok"
                THEN /\ UNCHANGED oob
                     /\ call' = [op |-> "write", offs |-> offs,
                                 count |-> count, buf |-> buf,
                                 ret |-> Err(ec.status), out |-> <<>>,
                                 submitted |-> TRUE,
                                 rqst |-> BuildRqst(buf, pld), ec |-> ec]
                ELSE /\ oob' = oob \cup StoreOverrun(buf_sysfs, ec.len)
                     /\ call' = [op |-> "write", offs |-> offs,
                                 count |-> count, buf |-> buf,
                                 ret |-> Ok(count), out |-> <<>>,
                                 submitted |-> TRUE,
                                 rqst |-> BuildRqst(buf, pld), ec |-> ec]
    /\ UNCHANGED <<powerVars, thermalVars, lockVars, charSigned, oops>>


-----------------------------------------------------------------------------
(***************************************************************************)
(* Battery / AC clients: surface_sam_sid_power.c                           *)
(*                                                                         *)
(* Time is the tick counter jiffies, an unsigned long that wraps; the      *)
(* model scales it to JIFFY_BITS bits.  CacheJiffies stands for            *)
(* msecs_to_jiffies(cache_time).  The model lets the cached state age      *)
(* until the cache window has just elapsed, which stays below half the     *)
(* range of the counter, as real uptimes do for a 64-bit counter.          *)
(***************************************************************************)
JIFFY_BITS == 3

CacheJiffies == 2

SAM_EVENT_PWR_CID_BIX == 21

SAM_EVENT_PWR_CID_BST == 22

SAM_EVENT_PWR_CID_ADAPTER == 23

SAM_BATTERY_STA_OK == 15

SAM_BATTERY_STA_PRESENT == 16

SAM_BATTERY_STATE_DISCHARGING == 1

SAM_BATTERY_STATE_CHARGING == 2

SAM_BATTERY_STATE_CRITICAL == 4

SAM_BATTERY_POWER_UNIT_MA == 1

\* bat->p: the battery's channel and instance (platform data)
BatChannel == 1

BatInstance == 1

JiffyMod == 2 ^ JIFFY_BITS

\* bitwise and with a single-bit or low-bits mask, on small values
BitSet(x, bit) == (x \div bit) % 2 = 1

LowBits(x, mask) == x % (mask + 1)

\* time_before(a, b): (long)(a - b) < 0 on the wrapping counter
time_before(a, b) == ((a - b) % JiffyMod) >= (JiffyMod \div 2)

\* time_is_after_jiffies(a) at tick j
time_is_after_jiffies(a, j) == time_before(j, a)

(***************************************************************************)
(* The controller's answers (environment).  A script fixes how the         *)
(* requests of one operation are answered: which one fails, if any, and    *)
(* the values returned by those that succeed.                              *)
(***************************************************************************)
StaVals == {0, SAM_BATTERY_STA_OK, SAM_BATTERY_STA_OK + SAM_BATTERY_STA_PRESENT}

ZeroBix == [power_unit |-> 0, last_full_charge_cap |-> 0, design_cap_warn |-> 0]

BixVals ==
    {[power_unit |-> 0, last_full_charge_cap |-> 3, design_cap_warn |-> 1],
     [power_unit |-> 1, last_full_charge_cap |-> 3, design_cap_warn |-> 2]}

ZeroBst == [state |-> 0, present_rate |-> 0, remaining_cap |-> 0]

BstVals ==
    {[state |-> SAM_BATTERY_STATE_DISCHARGING, present_rate |-> 5,
      remaining_cap |-> 1],
     [state |-> 0, present_rate |-> 0, remaining_cap |-> 3]}

DefaultScript ==
    [fail |-> "none", sta0 |-> SAM_BATTERY_STA_OK + SAM_BATTERY_STA_PRESENT,
     sta |-> SAM_BATTERY_STA_OK + SAM_BATTERY_STA_PRESENT,
     bix |-> CHOOSE x \in BixVals : x.power_unit = 0,
     bst |-> CHOOSE x \in BstVals : x.remaining_cap = 1]

\* scripts for a state update (STA, BIX, BST, then possibly BTP); the
\* answers to requests that are never sent are left at their defaults
UpdateScripts ==
    {[DefaultScript EXCEPT !.fail = "sta"],
     [DefaultScript EXCEPT !.sta = SAM_BATTERY_STA_OK],
     [DefaultScript EXCEPT !.fail = "bix"]}
    \cup {[DefaultScript EXCEPT !.fail = f] : f \in {"bst", "btp"}}
    \cup {[DefaultScript EXCEPT !.bix = x, !.bst = y] :
            x \in BixVals, y \in BstVals}

\* scripts for an update of the dynamic state only (STA, BST)
BstScripts ==
    {[DefaultScript EXCEPT !.fail = "sta"],
     [DefaultScript EXCEPT !.sta = SAM_BATTERY_STA_OK],
     [DefaultScript EXCEPT !.fail = "bst"]}
    \cup {[DefaultScript EXCEPT !.bst = y] : y \in BstVals}

\* scripts for a registration: the first STA query, the state update, the
\* trip point, then the three registrations
RegisterScripts ==
    {[DefaultScript EXCEPT !.fail = "sta0"], [DefaultScript EXCEPT !.sta0 = 0],
     [DefaultScript EXCEPT !.sta = SAM_BATTERY_STA_OK]}
    \cup {[DefaultScript EXCEPT !.fail = f] :
            f \in {"sta", "bix", "bst", "btp", "psy", "notif", "file"}}
    \cup {[DefaultScript EXCEPT !.bix = x] : x \in BixVals}

\* scripts for the registration that follows a change of the power unit
ReaddScripts ==
    {[DefaultScript EXCEPT !.fail = f] : f \in {"sta0", "psy"}}
    \cup {[DefaultScript EXCEPT !.bix = x] : x \in BixVals}

\* result of a step of an operation: status, cached state, requests sent
Res(st, b, reqs) == [st |-> st, bat |-> b, reqs |-> reqs, stamped |-> FALSE]

ZeroBat == [sta |-> 0, bix |-> ZeroBix, bst |-> ZeroBst, alarm |-> 0,
            timestamp |-> 0]

spwr_battery_present(b) == BitSet(b.sta, SAM_BATTERY_STA_PRESENT)

spwr_battery_load_sta(b, s) ==
    IF s.fail = "sta" THEN Res("EIO", b, <<"sta">>)
    ELSE Res("ok", [b EXCEPT !.sta = s.sta], <<"sta">>)

spwr_battery_load_bix(b, s) ==
    IF ~spwr_battery_present(b) THEN Res("ok", b, <<>>)
    ELSE IF s.fail = "bix" THEN Res("EIO", b, <<"bix">>)
    ELSE Res("ok", [b EXCEPT !.bix = s.bix], <<"bix">>)

\* a BST load that does not look at the presence bit
spwr_battery_load_bst_always(b, s) ==
    IF s.fail = "bst" THEN Res("EIO", b, <<"bst">>)
    ELSE Res("ok", [b EXCEPT !.bst = s.bst], <<"bst">>)

spwr_battery_load_bst(b, s) ==
    IF ~spwr_battery_present(b) THEN Res("ok", b, <<>>)
    ELSE IF s.fail = "bst" THEN Res("EIO", b, <<"bst">>)
    ELSE Res("ok", [b EXCEPT !.bst = s.bst], <<"bst">>)

\* the cached alarm is written before the request is sent
spwr_battery_set_alarm_unlocked(b, value, s) ==
    Res(IF s.fail = "btp" THEN "EIO" ELSE "ok",
        [b EXCEPT !.alarm = value], <<"btp">>)

\* r1 followed, if it succeeded, by the step next(_) on its state
Then(r1, next(_)) ==
    IF r1.st # "ok" THEN r1
    ELSE LET r2 == next(r1.bat)
         IN  [st |-> r2.st, bat |-> r2.bat, reqs |-> r1.reqs \o r2.reqs,
              stamped |-> r1.stamped \/ r2.stamped]

\* a timestamp that is refreshed whether or not the loads succeeded
StampAlways(r, j) ==
    [st |-> r.st, bat |-> [r.bat EXCEPT !.timestamp = j], reqs |-> r.reqs,
     stamped |-> r.st = "ok"]

\* bat->timestamp = jiffies after a sequence of loads that all succeeded
Stamp(r, j) ==
    IF r.st # "ok" THEN r
    ELSE [st |-> "ok", bat |-> [r.bat EXCEPT !.timestamp = j], reqs |-> r.reqs,
          stamped |-> TRUE]

\* the test that answers from the cache
CacheFresh(b, cached, j) ==
    /\ cached
    /\ b.timestamp # 0
    /\ time_is_after_jiffies((b.timestamp + CacheJiffies) % JiffyMod, j)

spwr_battery_update_bst_unlocked(b, cached, s, j) ==
    IF CacheFresh(b, cached, j) THEN Res("ok", b, <<>>)
    ELSE Stamp(Then(spwr_battery_load_sta(b, s),
                    LAMBDA b1 : spwr_battery_load_bst(b1, s)), j)

spwr_battery_update_bix_unlocked(b, s, j) ==
    Stamp(Then(Then(spwr_battery_load_sta(b, s),
                    LAMBDA b1 : spwr_battery_load_bix(b1, s)),
               LAMBDA b2 : spwr_battery_load_bst(b2, s)), j)

spwr_battery_prop_status(b) ==
    IF BitSet(b.bst.state, SAM_BATTERY_STATE_DISCHARGING) THEN "DISCHARGING"
    ELSE IF BitSet(b.bst.state, SAM_BATTERY_STATE_CHARGING) THEN "CHARGING"
    ELSE IF b.bix.last_full_charge_cap = b.bst.remaining_cap THEN "FULL"
    ELSE IF b.bst.present_rate = 0 THEN "NOT_CHARGING"
    ELSE "UNKNOWN"

spwr_battery_prop_capacity_level(b) ==
    IF BitSet(b.bst.state, SAM_BATTERY_STATE_CRITICAL) THEN "CRITICAL"
    ELSE IF b.bst.remaining_cap >= b.bix.last_full_charge_cap THEN "FULL"
    ELSE IF b.bst.remaining_cap <= b.alarm THEN "LOW"
    ELSE "NORMAL"

\* the width the model gives the u32 capacities and the int result
CAP_BITS == 10

CapMod == 2 ^ CAP_BITS

\* the u32 quotient returned as int
U32ToInt(x) == IF x >= CapMod \div 2 THEN x - CapMod ELSE x

\* spwr_battery_prop_capacity: remaining_cap * 100 is a u32 product
spwr_battery_prop_capacity(b) ==
    IF b.bst.remaining_cap # 0 /\ b.bix.last_full_charge_cap # 0
    THEN U32ToInt(((b.bst.remaining_cap * 100) % CapMod)
                      \div b.bix.last_full_charge_cap)
    ELSE 0

\* the properties the model asks for; ONLINE is not a battery property
Props == {"PRESENT", "STATUS", "CAPACITY_LEVEL", "ONLINE"}

NoVal == [int |-> 0, str |-> "none"]

IntVal(n) == [int |-> n, str |-> "int"]

StrVal(x) == [int |-> 0, str |-> x]

\* spwr_battery_get_property, inside the lock: status, state, requests, value
spwr_battery_get_property(b, psp, s, j) ==
    LET r == spwr_battery_update_bst_unlocked(b, TRUE, s, j)
        out(st, v) == [st |-> st, bat |-> r.bat, reqs |-> r.reqs,
                       stamped |-> r.stamped, val |-> v]
    IN  IF r.st # "ok" THEN out(r.st, NoVal)
        ELSE IF ~spwr_battery_present(r.bat) /\ psp # "PRESENT"
             THEN out("ENODEV", NoVal)
        ELSE CASE psp = "STATUS" -> out("ok", StrVal(spwr_battery_prop_status(r.bat)))
               [] psp = "PRESENT" ->
                    out("ok", IntVal(IF spwr_battery_present(r.bat) THEN 1 ELSE 0))
               [] psp = "CAPACITY_LEVEL" ->
                    out("ok", StrVal(spwr_battery_prop_capacity_level(r.bat)))
               [] psp = "CAPACITY" ->
                    out("ok", IntVal(spwr_battery_prop_capacity(r.bat)))
               [] OTHER -> out("EINVAL", NoVal)


(***************************************************************************)
(* Registration and teardown                                               *)
(***************************************************************************)
NoReg == [psy |-> FALSE, file |-> FALSE, lock |-> FALSE, props |-> "none"]

Without(seq, c) == SelectSeq(seq, LAMBDA x : x # c)

InSeq(seq, c) == \E i \in 1..Len(seq) : seq[i] = c

\* spwr_battery_register: status, cached state, requests, what is
\* registered when it returns, and whether the notifier is in the list
spwr_battery_register(b, s, j) ==
    LET out(r, st, reg, n) ==
            [st |-> st, bat |-> r.bat, reqs |-> <<"sta">> \o r.reqs,
             stamped |-> r.stamped, reg |-> reg, notif |-> n]
        r0 == Res("ok", b, <<>>)
        r1 == spwr_battery_update_bix_unlocked(b, s, j)
        r2 == IF r1.st = "ok" /\ spwr_battery_present(r1.bat)
              THEN Then(r1, LAMBDA b1 :
                     spwr_battery_set_alarm_unlocked(b1, b1.bix.design_cap_warn, s))
              ELSE r1
        props == IF r2.bat.bix.power_unit = SAM_BATTERY_POWER_UNIT_MA
                 THEN "chg" ELSE "eng"
    IN  IF s.fail = "sta0" THEN out(r0, "EIO", NoReg, FALSE)
        ELSE IF LowBits(s.sta0, SAM_BATTERY_STA_OK) # SAM_BATTERY_STA_OK
             THEN out(r0, "ENODEV", NoReg, FALSE)
        ELSE IF r2.st # "ok" THEN out(r2, r2.st, NoReg, FALSE)
        ELSE IF s.fail = "psy" THEN out(r2, "ENOMEM", NoReg, FALSE)
        ELSE IF s.fail = "notif" THEN out(r2, "EINVAL", NoReg, FALSE)
        ELSE IF s.fail = "file" THEN out(r2, "ENOMEM", NoReg, FALSE)
        ELSE out(r2, "ok",
                 [psy |-> TRUE, file |-> TRUE, lock |-> TRUE, props |-> props],
                 TRUE)

\* spwr_battery_unregister: the order in which it tears things down
UnregisterOrderWorkFirst == <<"work", "notif", "file", "psy", "lock">>

UnregisterOrder == <<"notif", "work", "file", "psy", "lock">>

\* spwr_ac_unregister: the order in which it tears things down
AcUnregisterOrder == <<"notif", "psy", "lock">>

\* spwr_battery_recheck: the state update, the alarm, and whether the
\* battery has to be added again (the power unit changed)
spwr_battery_recheck_update(b, s, j) ==
    LET present == spwr_battery_present(b)
        r1 == spwr_battery_update_bix_unlocked(b, s, j)
    IN  IF r1.st = "ok" /\ ~present /\ spwr_battery_present(r1.bat)
        THEN Then(r1, LAMBDA b1 :
               spwr_battery_set_alarm_unlocked(b1, b1.bix.design_cap_warn, s))
        ELSE r1

\* a recheck that never adds the battery again
spwr_battery_recheck_keeps(b, r) == FALSE

spwr_battery_recheck_readd(b, r) ==
    r.st = "ok" /\ b.bix.power_unit # r.bat.bix.power_unit


(***************************************************************************)
(* Event handlers.  A handler works on the bundle ps of everything a       *)
(* dispatch can change and returns the new bundle with its result.         *)
(***************************************************************************)
Ev(cid, chn, iid) == [cid |-> cid, chn |-> chn, iid |-> iid]

\* the battery's own events, the adapter event as the AC receives it and as
\* it arrives for another instance, and events the battery does not own
Events ==
    {Ev(SAM_EVENT_PWR_CID_BIX, BatChannel, BatInstance),
     Ev(SAM_EVENT_PWR_CID_BST, BatChannel, BatInstance),
     Ev(SAM_EVENT_PWR_CID_ADAPTER, BatChannel, 0),
     Ev(SAM_EVENT_PWR_CID_ADAPTER, BatChannel + 1, BatInstance),
     Ev(SAM_EVENT_PWR_CID_BST, BatChannel + 1, BatInstance),
     Ev(SAM_EVENT_PWR_CID_BIX, BatChannel, 0)}

NoEv == [cid |-> 0, chn |-> 0, iid |-> 0]

\* the answer to the AC's PSRC query
AcScripts == {[fail |-> TRUE, state |-> 0], [fail |-> FALSE, state |-> 1]}

HandlerRet(ps, handled, err) == [ps |-> ps, handled |-> handled, err |-> err]

\* what touching the battery's lock or power supply means once they are gone
BatTouch(ps) ==
    IF ps.breg.lock /\ ps.breg.psy THEN ps.hazard
    ELSE ps.hazard \cup {"bat_use_after_unregister"}

AcTouch(ps) ==
    IF ps.ac.lock /\ ps.ac.psy THEN ps.hazard
    ELSE ps.hazard \cup {"ac_use_after_unregister"}

\* a handler that schedules the update only above the last full charge
spwr_notify_adapter_bat_above(ps) ==
    IF ps.bat.bst.remaining_cap > ps.bat.bix.last_full_charge_cap
    THEN [ps EXCEPT !.workPending = TRUE]
    ELSE ps

spwr_notify_adapter_bat(ps) ==
    IF ps.bat.bst.remaining_cap >= ps.bat.bix.last_full_charge_cap
    THEN [ps EXCEPT !.workPending = TRUE]
    ELSE ps

spwr_notify_bst(ps, s, j) ==
    LET r == spwr_battery_update_bst_unlocked(ps.bat, FALSE, s, j)
    IN  HandlerRet([ps EXCEPT !.bat = r.bat, !.reqs = @ \o r.reqs,
                              !.stamped = @ \/ r.stamped,
                              !.hazard = BatTouch(ps),
                              !.chg = IF r.st = "ok" THEN @ \cup {"bat"} ELSE @],
                   TRUE, r.st)

\* spwr_notify_bix: when the power unit changed, spwr_battery_recheck calls
\* spwr_battery_unregister from inside the handler; the notifier is taken
\* off the list and the wait for running handlers never ends
spwr_notify_bix(ps, s, j) ==
    LET r  == spwr_battery_recheck_update(ps.bat, s, j)
        p1 == [ps EXCEPT !.bat = r.bat, !.reqs = @ \o r.reqs,
                         !.stamped = @ \/ r.stamped, !.hazard = BatTouch(ps)]
    IN  IF spwr_battery_recheck_readd(ps.bat, r)
        THEN HandlerRet([p1 EXCEPT !.nf = Without(@, "bat"),
                                   !.hazard = @ \cup {"deadlock"}],
                        TRUE, "never")
        ELSE HandlerRet([p1 EXCEPT !.chg = IF r.st = "ok" THEN @ \cup {"bat"}
                                                          ELSE @],
                        TRUE, r.st)

spwr_notify_bat(ps, ev, s, j) ==
    IF ev.cid = SAM_EVENT_PWR_CID_ADAPTER
    THEN HandlerRet(spwr_notify_adapter_bat(ps), TRUE, "ok")
    ELSE IF ev.chn # BatChannel THEN HandlerRet(ps, FALSE, "ok")
    ELSE IF ev.iid # BatInstance THEN HandlerRet(ps, FALSE, "ok")
    ELSE IF ev.cid = SAM_EVENT_PWR_CID_BIX THEN spwr_notify_bix(ps, s, j)
    ELSE IF ev.cid = SAM_EVENT_PWR_CID_BST THEN spwr_notify_bst(ps, s, j)
    ELSE HandlerRet(ps, FALSE, "ok")

spwr_notify_adapter_ac(ps, a) ==
    LET p1 == [ps EXCEPT !.reqs = Append(@, "psrc"), !.hazard = AcTouch(ps)]
    IN  IF a.fail THEN HandlerRet(p1, TRUE, "EIO")
        ELSE HandlerRet([p1 EXCEPT !.ac.state = a.state,
                                   !.chg = @ \cup {"ac"}], TRUE, "ok")

\* an AC handler that takes the adapter event of every instance
spwr_notify_ac_any_instance(ps, ev, a) ==
    IF ev.cid = SAM_EVENT_PWR_CID_ADAPTER THEN spwr_notify_adapter_ac(ps, a)
    ELSE HandlerRet(ps, FALSE, "ok")

spwr_notify_ac(ps, ev, a) ==
    IF ev.iid # 0 THEN HandlerRet(ps, FALSE, "ok")
    ELSE IF ev.cid = SAM_EVENT_PWR_CID_ADAPTER THEN spwr_notify_adapter_ac(ps, a)
    ELSE HandlerRet(ps, FALSE, "ok")

\* notif.base.priority of the two clients
BatPriority == 1

AcPriority == 1

Priority(c) == IF c = "bat" THEN BatPriority ELSE AcPriority

(***************************************************************************)
(* The controller's notifier list and dispatcher (not among the sources;   *)
(* modelled from the design: handlers are kept in descending priority,     *)
(* an event is offered to them in that order, a "handled" result ends the  *)
(* handler's priority tier and the next tier is still served).             *)
(***************************************************************************)
RECURSIVE InsertByPriority(_, _)
InsertByPriority(list, c) ==
    IF list = <<>> THEN <<c>>
    ELSE IF Priority(Head(list)) >= Priority(c)
         THEN <<Head(list)>> \o InsertByPriority(Tail(list), c)
         ELSE <<c>> \o list

RECURSIVE RunChain(_, _, _, _, _, _, _)
RunChain(chain, i, tierDone, ps, ev, s, a) ==
    IF i > Len(chain) \/ "deadlock" \in ps.hazard THEN ps
    ELSE IF Priority(chain[i]) = tierDone
         THEN RunChain(chain, i + 1, tierDone, ps, ev, s, a)
    ELSE LET h  == IF chain[i] = "bat"
                   THEN spwr_notify_bat(ps, ev, s, ps.j)
                   ELSE spwr_notify_ac(ps, ev, a)
             p1 == [h.ps EXCEPT !.called = Append(@, chain[i]),
                                !.rets = Append(@, [handled |-> h.handled,
                                                    err |-> h.err])]
         IN  RunChain(chain, i + 1,
                      IF h.handled THEN Priority(chain[i]) ELSE tierDone,
                      p1, ev, s, a)


(***************************************************************************)
(* State machine of the power clients                                      *)
(***************************************************************************)
BaseOp ==
    [name |-> "none", ret |-> "ok", reqs |-> <<>>, psp |-> "none",
     val |-> NoVal, chg |-> {}, ev |-> NoEv, called |-> <<>>, rets |-> <<>>,
     bind |-> "ok", readd |-> FALSE, fail |-> "none"]

Op(name, ret, reqs) == [BaseOp EXCEPT !.name = name, !.ret = ret, !.reqs = reqs]

ZeroAc == [dev |-> "unbound", state |-> 0, psy |-> FALSE, lock |-> FALSE,
           rmPc |-> 0]

PowerInit ==
    /\ clock \in {[jiffies |-> t, age |-> 0, stamped |-> FALSE] :
                    t \in 0..(JiffyMod - 1)}
    /\ bat = ZeroBat
    /\ breg = NoReg
    /\ workPending = FALSE
    /\ bdev = "unbound"
    /\ rmPc = 0
    /\ ac = ZeroAc
    /\ nf = <<>>
    /\ op = BaseOp
    /\ hazard = {}
    /\ teardown = <<>>

\* the clock after an operation: a successful update restarts the age
ClockAfter(stamped) ==
    IF stamped THEN [clock EXCEPT !.age = 0, !.stamped = TRUE] ELSE clock

\* a run is followed up to its first fault (use after unregister, double
\* unregister, a handler waiting for itself), not beyond it
NoFault == hazard = {}

\* a tick of the jiffies counter
Tick ==
    /\ NoFault
    /\ ~clock.stamped \/ clock.age < CacheJiffies
    /\ clock' = [clock EXCEPT !.jiffies = (@ + 1) % JiffyMod,
                              !.age = IF clock.stamped THEN @ + 1 ELSE @]
    /\ op' = Op("tick", "ok", <<>>)
    /\ UNCHANGED <<sysfsVars, thermalVars, lockVars, bat, breg, workPending, bdev, rmPc, ac, nf, hazard, teardown>>

BindResults == {"ok", "ENXIO", "ENODEV"}

\* the error a probe returns for a failed ssam_client_bind
ProbeBindErrorSame(status) == status

ProbeBindError(status) == IF status = "ENXIO" THEN "EPROBE_DEFER" ELSE status

\* surface_sam_sid_battery_probe
BatProbe ==
    /\ NoFault
    /\ bdev = "unbound"
    /\ \E bind \in BindResults :
         IF bind # "ok"
         THEN /\ op' = [Op("bat_probe", ProbeBindError(bind), <<>>)
                           EXCEPT !.bind = bind]
              /\ UNCHANGED <<clock, bat, breg, workPending, bdev, nf,
                             teardown>>
         ELSE \E alloc \in BOOLEAN :
              IF ~alloc
              THEN /\ op' = Op("bat_probe", "ENOMEM", <<>>)
                   /\ UNCHANGED <<clock, bat, breg, workPending, bdev, nf,
                                  teardown>>
              ELSE \E s \in RegisterScripts :
                   \E g \in {spwr_battery_register(ZeroBat, s, clock.jiffies)} :
                       /\ op' = Op("bat_probe", g.st, g.reqs)
                       /\ IF g.st = "ok"
                          THEN /\ bat' = g.bat
                               /\ breg' = g.reg
                               /\ bdev' = "bound"
                               /\ nf' = InsertByPriority(nf, "bat")
                               /\ clock' = ClockAfter(g.stamped)
                               /\ workPending' = FALSE
                               /\ teardown' = <<>>
                          ELSE UNCHANGED <<clock, bat, breg, workPending,
                                           bdev, nf, teardown>>
    /\ UNCHANGED <<sysfsVars, thermalVars, lockVars, rmPc, ac, hazard>>

\* surface_sam_sid_battery_probe in two steps, for what can happen between
\* them: spwr_battery_register up to the registration of the notifier ...
BatRegisterBegin ==
    /\ NoFault
    /\ bdev = "unbound"
    /\ \E s \in {x \in RegisterScripts : x.fail = "none"} :
       \E g \in {spwr_battery_register(ZeroBat, s, clock.jiffies)} :
         /\ g.st = "ok"
         /\ bat' = g.bat
         /\ breg' = [g.reg EXCEPT !.file = FALSE]
         /\ bdev' = "registering"
         /\ nf' = InsertByPriority(nf, "bat")
         /\ clock' = ClockAfter(g.stamped)
         /\ workPending' = FALSE
         /\ teardown' = <<>>
         /\ op' = Op("bat_register", "ok", g.reqs)
    /\ UNCHANGED <<sysfsVars, thermalVars, lockVars, rmPc, ac, hazard>>

\* ... and device_create_file with, when it fails, the labels err_file,
\* err_notif and err_psy; the probe returns and the device memory is released
BatRegisterEnd ==
    /\ NoFault
    /\ bdev = "registering"
    /\ \E file \in BOOLEAN :
         IF file
         THEN /\ breg' = [breg EXCEPT !.file = TRUE]
              /\ bdev' = "bound"
              /\ op' = Op("bat_probe", "ok", <<>>)
              /\ UNCHANGED <<bat, nf, clock>>
         ELSE /\ breg' = NoReg
              /\ bdev' = "unbound"
              /\ nf' = Without(nf, "bat")
              /\ bat' = ZeroBat
              /\ clock' = [clock EXCEPT !.age = 0, !.stamped = FALSE]
              /\ op' = [Op("bat_probe", "ENOMEM", <<>>) EXCEPT !.fail = "file"]
    /\ UNCHANGED <<sysfsVars, thermalVars, lockVars, workPending, rmPc, ac, hazard, teardown>>

\* the scripts that make a difference to a query: none while it is
\* answered from the cache
QueryScripts ==
    IF CacheFresh(bat, TRUE, clock.jiffies) THEN {DefaultScript}
    ELSE BstScripts

\* spwr_battery_get_property, called by the power-supply class
GetProperty ==
    /\ NoFault
    /\ bdev = "bound"
    /\ breg.psy
    /\ \E psp \in Props, s \in QueryScripts :
         \E r \in {spwr_battery_get_property(bat, psp, s, clock.jiffies)} :
                /\ bat' = r.bat
                /\ clock' = ClockAfter(r.stamped)
                /\ op' = [Op("get_property", r.st, r.reqs)
                             EXCEPT !.psp = psp, !.val = r.val,
                                    !.fail = s.fail]
    /\ UNCHANGED <<sysfsVars, thermalVars, lockVars, breg, workPending, bdev, rmPc, ac, nf, hazard, teardown>>

\* surface_sam_sid_battery_resume: spwr_battery_recheck, with the
\* unregister / register pair when the power unit changed
Resume ==
    /\ bdev = "bound"
    /\ rmPc = 0
    /\ NoFault
    /\ \E s \in UpdateScripts :
       \E r \in {spwr_battery_recheck_update(bat, s, clock.jiffies)} :
         LET h == IF breg.lock THEN hazard
                  ELSE hazard \cup {"bat_use_after_unregister"}
         IN  IF spwr_battery_recheck_readd(bat, r)
             THEN \E s2 \in ReaddScripts :
                  \E g \in {spwr_battery_register(r.bat, s2, clock.jiffies)} :
                      /\ bat' = g.bat
                      /\ breg' = g.reg
                      /\ workPending' = FALSE
                      /\ nf' = IF g.notif
                               THEN InsertByPriority(Without(nf, "bat"), "bat")
                               ELSE Without(nf, "bat")
                      /\ clock' = ClockAfter(r.stamped \/ g.stamped)
                      /\ hazard' = IF breg.psy THEN h
                                   ELSE h \cup {"double_unregister"}
                      /\ op' = [Op("resume", g.st, r.reqs \o g.reqs)
                                   EXCEPT !.readd = TRUE, !.fail = s.fail]
             ELSE /\ bat' = r.bat
                  /\ clock' = ClockAfter(r.stamped)
                  /\ hazard' = h
                  /\ op' = [Op("resume", r.st, r.reqs) EXCEPT !.fail = s.fail]
                  /\ UNCHANGED <<breg, workPending, nf>>
    /\ UNCHANGED <<sysfsVars, thermalVars, lockVars, bdev, rmPc, ac, teardown>>

\* what is written to the alarm attribute: -1 for text kstrtoul refuses,
\* else the number it parses (microwatt-hours)
AlarmInputs == {-1, 0, 999, 1000, 2500}

\* spwr_battery_alarm_store
spwr_battery_alarm_store(b, value, s) ==
    IF value < 0 THEN Res("EINVAL", b, <<>>)
    ELSE IF ~spwr_battery_present(b) THEN Res("ENODEV", b, <<>>)
    ELSE spwr_battery_set_alarm_unlocked(b, value \div 1000, s)

AlarmStore ==
    /\ NoFault
    /\ bdev = "bound"
    /\ rmPc = 0
    /\ breg.file
    /\ \E value \in AlarmInputs,
          s \in {DefaultScript, [DefaultScript EXCEPT !.fail = "btp"]} :
       \E r \in {spwr_battery_alarm_store(bat, value, s)} :
         /\ bat' = r.bat
         /\ op' = [Op("alarm_store", r.st, r.reqs)
                      EXCEPT !.val = IntVal(value), !.fail = s.fail]
    /\ UNCHANGED <<sysfsVars, thermalVars, lockVars, clock, breg, workPending, bdev, rmPc, ac, nf,
                   hazard, teardown>>

\* spwr_battery_alarm_show
AlarmShow ==
    /\ NoFault
    /\ bdev = "bound"
    /\ rmPc = 0
    /\ breg.file
    /\ op' = [Op("alarm_show", "ok", <<>>) EXCEPT !.val = IntVal(bat.alarm * 1000)]
    /\ UNCHANGED <<sysfsVars, thermalVars, lockVars, clock, bat, breg, workPending, bdev, rmPc, ac,
                   nf, hazard, teardown>>

\* the scripts that make a difference to the handlers of event ev
EventScripts(ev) ==
    IF ev.chn = BatChannel /\ ev.iid = BatInstance
    THEN CASE ev.cid = SAM_EVENT_PWR_CID_BIX -> UpdateScripts
           [] ev.cid = SAM_EVENT_PWR_CID_BST -> BstScripts
           [] OTHER -> {DefaultScript}
    ELSE {DefaultScript}

EventAcScripts(ev) ==
    IF ev.cid = SAM_EVENT_PWR_CID_ADAPTER /\ ev.iid = 0 /\ InSeq(nf, "ac")
    THEN AcScripts
    ELSE {[fail |-> FALSE, state |-> 0]}

\* an event from the controller, offered to the registered handlers
Dispatch ==
    /\ nf # <<>>
    /\ NoFault
    /\ \E ev \in Events :
       \E s \in EventScripts(ev), a \in EventAcScripts(ev) :
         LET ps0 == [bat |-> bat, breg |-> breg, workPending |-> workPending,
                     ac |-> ac, nf |-> nf, hazard |-> hazard,
                     stamped |-> FALSE, reqs |-> <<>>, chg |-> {},
                     called |-> <<>>, rets |-> <<>>, j |-> clock.jiffies]
         IN  \E ps \in {RunChain(nf, 1, 0, ps0, ev, s, a)} :
             /\ bat' = ps.bat
             /\ workPending' = ps.workPending
             /\ ac' = ps.ac
             /\ nf' = ps.nf
             /\ hazard' = ps.hazard
             /\ clock' = ClockAfter(ps.stamped)
             /\ op' = [Op("event", "ok", ps.reqs)
                          EXCEPT !.ev = ev, !.called = ps.called,
                                 !.rets = ps.rets, !.chg = ps.chg,
                                 !.fail = s.fail]
    /\ UNCHANGED <<sysfsVars, thermalVars, lockVars, breg, bdev, rmPc, teardown>>

\* spwr_battery_update_bst_workfn, when the delayed work runs
WorkRun ==
    /\ NoFault
    /\ workPending
    /\ \E s \in BstScripts :
         \E r \in {spwr_battery_update_bst_unlocked(bat, FALSE, s, clock.jiffies)} :
                /\ bat' = r.bat
                /\ clock' = ClockAfter(r.stamped)
                /\ op' = [Op("work", r.st, r.reqs)
                             EXCEPT !.chg = IF r.st = "ok" THEN {"bat"} ELSE {},
                                    !.fail = s.fail]
    /\ workPending' = FALSE
    /\ hazard' = IF breg.lock /\ breg.psy /\ bdev # "unbound" THEN hazard
                 ELSE hazard \cup {"bat_use_after_unregister"}
    /\ UNCHANGED <<sysfsVars, thermalVars, lockVars, breg, bdev, rmPc, ac, nf, teardown>>

\* surface_sam_sid_battery_remove: one step of spwr_battery_unregister;
\* the last step ends the remove and the device memory is released
BatRemoveStep ==
    /\ NoFault
    /\ bdev = "bound"
    /\ rmPc < Len(UnregisterOrder)
    /\ LET step == UnregisterOrder[rmPc + 1]
           last == rmPc + 1 = Len(UnregisterOrder)
       IN  /\ nf' = IF step = "notif" THEN Without(nf, "bat") ELSE nf
           /\ workPending' = IF step = "work" THEN FALSE ELSE workPending
           /\ breg' = CASE last -> NoReg
                        [] step = "file" -> [breg EXCEPT !.file = FALSE]
                        [] step = "psy"  -> [breg EXCEPT !.psy = FALSE]
                        [] step = "lock" -> [breg EXCEPT !.lock = FALSE]
                        [] OTHER -> breg
           /\ hazard' = IF (step = "notif" /\ ~InSeq(nf, "bat"))
                           \/ (step = "file" /\ ~breg.psy)
                        THEN hazard \cup {"double_unregister"} ELSE hazard
           /\ teardown' = IF rmPc = 0 THEN <<step>> ELSE Append(teardown, step)
           /\ rmPc' = IF last THEN 0 ELSE rmPc + 1
           /\ bdev' = IF last THEN "unbound" ELSE bdev
           /\ bat' = IF last THEN ZeroBat ELSE bat
           /\ clock' = IF last THEN [clock EXCEPT !.age = 0, !.stamped = FALSE]
                       ELSE clock
           /\ op' = Op(IF last THEN "bat_remove" ELSE "bat_unregister", "ok", <<>>)
    /\ UNCHANGED <<sysfsVars, thermalVars, lockVars, ac>>

\* surface_sam_sid_ac_probe with spwr_ac_register
AcProbe ==
    /\ NoFault
    /\ ac.dev = "unbound"
    /\ \E bind \in BindResults :
         IF bind # "ok"
         THEN /\ op' = [Op("ac_probe", ProbeBindError(bind), <<>>)
                           EXCEPT !.bind = bind]
              /\ UNCHANGED <<ac, nf>>
         ELSE \E f \in {"nomem", "sta", "sta0", "psy", "notif", "none"} :
              LET sta == IF f = "sta0" THEN 0 ELSE SAM_BATTERY_STA_OK
                  st == CASE f = "nomem" -> "ENOMEM"
                          [] f = "sta" -> "EIO"
                          [] LowBits(sta, SAM_BATTERY_STA_OK) # SAM_BATTERY_STA_OK
                               -> "ENODEV"
                          [] f = "psy" -> "ENOMEM"
                          [] f = "notif" -> "EINVAL"
                          [] OTHER -> "ok"
              IN  /\ op' = Op("ac_probe", st,
                              IF f = "nomem" THEN <<>> ELSE <<"sta">>)
                  /\ IF st = "ok"
                     THEN /\ ac' = [ac EXCEPT !.dev = "bound", !.psy = TRUE,
                                              !.lock = TRUE]
                          /\ nf' = InsertByPriority(nf, "ac")
                     ELSE UNCHANGED <<ac, nf>>
    /\ UNCHANGED <<sysfsVars, thermalVars, lockVars, clock, bat, breg, workPending, bdev, rmPc, hazard, teardown>>

\* surface_sam_sid_ac_remove: one step of spwr_ac_unregister
AcRemoveStep ==
    /\ NoFault
    /\ ac.dev = "bound"
    /\ ac.rmPc < Len(AcUnregisterOrder)
    /\ LET step == AcUnregisterOrder[ac.rmPc + 1]
           last == ac.rmPc + 1 = Len(AcUnregisterOrder)
       IN  /\ nf' = IF step = "notif" THEN Without(nf, "ac") ELSE nf
           /\ ac' = IF last THEN ZeroAc
                    ELSE [ac EXCEPT !.rmPc = @ + 1,
                                    !.psy = IF step = "psy" THEN FALSE ELSE @,
                                    !.lock = IF step = "lock" THEN FALSE ELSE @]
           /\ op' = Op(IF last THEN "ac_remove" ELSE "ac_unregister", "ok", <<>>)
    /\ UNCHANGED <<sysfsVars, thermalVars, lockVars, clock, bat, breg, workPending, bdev, rmPc, hazard, teardown>>

------------------------------------------------------------------------------
(***************************************************************************)
(* The thermal clients: the per-sensor thermal zone driver                 *)
(* (surface_thermal.c) and the hwmon driver for all sensors.               *)
(***************************************************************************)

BITS_PER_LONG == 64

SSAM_TMP_SENSOR_MAX_COUNT == 16

\* the instance ids a sensor device can carry (u8), the edges of the
\* bitfield and of the word among them
Instances == {0, 1, 2, 16, 17, 64, 65, 66, 80, 130, 255}

\* the bitfields the controller can report
SensorVals == {0, 1, 2, 3, 32768, 32769, 65535}

\* the raw temperatures the controller can report, in 1/10 K
RawTemps == {0, 2731, 3031}

Channels == 0..(SSAM_TMP_SENSOR_MAX_COUNT - 1)

\* BIT(n) is 1UL << n: the position of the bit it sets, -1 when the value
\* has no bit set. A count of BITS_PER_LONG or more is undefined: the shift
\* instruction takes the count modulo the word size (wraps), or the
\* compiler makes the value 0
BIT(n, wraps) ==
    IF n < BITS_PER_LONG THEN n
    ELSE IF wraps THEN n % BITS_PER_LONG ELSE -1

\* u16 sensors & BIT(..): the u16 is zero-extended
U16And(x, k) == k >= 0 /\ k < 16 /\ BitSet(x, 2 ^ k)

\* *sensors = le16_to_cpu(sensors_le) into an s16
ToS16(v) == IF v >= 32768 THEN v - 65536 ELSE v

\* s16 sensors & BIT(..): the s16 is sign-extended to the word
S16And(x, k) ==
    /\ k >= 0
    /\ IF k < 16 THEN BitSet(x % 65536, 2 ^ k) ELSE x < 0

\* Convert 1/10 K to 1/1000 C
ToMilliCelsius(raw) == (raw - 2731) * 100

ThermalFails == {"none", "query", "alloc", "zone", "enable"}

\* ssam_thermal_sensor_probe for instance iid when the controller reports
\* the bitfield avail and step fail of the probe fails
ssam_thermal_sensor_probe(iid, avail, fail, wraps) ==
    IF iid = 0 THEN [ret |-> "ENODEV", zone |-> FALSE, reqs |-> <<>>]
    ELSE IF fail = "query" THEN [ret |-> "EIO", zone |-> FALSE, reqs |-> <<"SENSORS">>]
    ELSE IF ~U16And(avail, BIT(iid - 1, wraps))
         THEN [ret |-> "ENODEV", zone |-> FALSE, reqs |-> <<"SENSORS">>]
    ELSE IF fail = "alloc" THEN [ret |-> "ENOMEM", zone |-> FALSE, reqs |-> <<"SENSORS">>]
    ELSE IF fail = "zone" THEN [ret |-> "EINVAL", zone |-> FALSE, reqs |-> <<"SENSORS">>]
    ELSE IF fail = "enable" THEN [ret |-> "EINVAL", zone |-> FALSE, reqs |-> <<"SENSORS">>]
    ELSE [ret |-> "ok", zone |-> TRUE, reqs |-> <<"SENSORS">>]

\* ssam_temp_hwmon_is_visible: the mode of a channel
ssam_temp_hwmon_is_visible(sensors, channel, wraps) ==
    IF S16And(sensors, BIT(channel, wraps)) THEN 292 ELSE 0

\* the loop of ssam_temp_probe: for each channel the instance id its name
\* was asked with, 0 when it was not asked; failAt is the channel whose
\* request fails (-1: none)
RECURSIVE FetchNames(_, _, _, _, _)
FetchNames(sensors, channel, names, failAt, wraps) ==
    IF channel >= SSAM_TMP_SENSOR_MAX_COUNT THEN [ret |-> "ok", names |-> names]
    ELSE IF ~S16And(sensors, BIT(channel, wraps))
         THEN FetchNames(sensors, channel + 1, names, failAt, wraps)
    ELSE IF channel = failAt THEN [ret |-> "EIO", names |-> names]
    ELSE FetchNames(sensors, channel + 1,
                    [names EXCEPT ![channel] = channel + 1], failAt, wraps)

NoNames == [c \in Channels |-> 0]

NoHwmon == [reg |-> FALSE, sensors |-> 0, names |-> NoNames, visible |-> {}]

\* ssam_temp_probe; devm_hwmon_device_register_with_info asks is_visible
\* for each channel of ssam_temp_hwmon_info
ssam_temp_probe(avail, fail, failAt, wraps) ==
    IF fail = "query" THEN [ret |-> "EIO", hwmon |-> NoHwmon]
    ELSE IF fail = "alloc" THEN [ret |-> "ENOMEM", hwmon |-> NoHwmon]
    ELSE LET sensors == ToS16(avail)
             f == FetchNames(sensors, 0, NoNames, failAt, wraps)
         IN  IF f.ret # "ok" THEN [ret |-> f.ret, hwmon |-> NoHwmon]
             ELSE IF fail = "hwmon" THEN [ret |-> "EINVAL", hwmon |-> NoHwmon]
             ELSE [ret |-> "ok",
                   hwmon |-> [reg |-> TRUE, sensors |-> sensors,
                              names |-> f.names,
                              visible |-> {c \in Channels :
                                  ssam_temp_hwmon_is_visible(sensors, c, wraps) # 0}]]

\* the last thermal operation
TmpOp(name, iid, chan, ret, val) ==
    [name |-> name, iid |-> iid, chan |-> chan, ret |-> ret, val |-> val]

\* no thermal client bound
ThermalIdle(avail, wraps) ==
    [avail |-> avail, wraps |-> wraps, zones |-> {}, hwmon |-> NoHwmon,
     top |-> TmpOp("none", 0, 0, "ok", 0)]

ThermalSensorProbe ==
    /\ \E iid \in Instances \ tmp.zones, fail \in ThermalFails :
       \E r \in {ssam_thermal_sensor_probe(iid, tmp.avail, fail, tmp.wraps)} :
         tmp' = [tmp EXCEPT !.zones = IF r.zone THEN @ \cup {iid} ELSE @,
                            !.top = TmpOp("sensor_probe", iid, 0, r.ret, 0)]
    /\ UNCHANGED <<sysfsVars, powerVars, lockVars>>

\* ssam_thermal_sensor_remove
ThermalSensorRemove ==
    /\ \E iid \in tmp.zones :
         tmp' = [tmp EXCEPT !.zones = @ \ {iid},
                            !.top = TmpOp("sensor_remove", iid, 0, "ok", 0)]
    /\ UNCHANGED <<sysfsVars, powerVars, lockVars>>

\* ssam_thermal_get_temp: the request goes to the instance of the device
ThermalGetTemp ==
    /\ \E iid \in tmp.zones, raw \in RawTemps, ok \in BOOLEAN :
         tmp' = [tmp EXCEPT !.top =
                    IF ok THEN TmpOp("zone_temp", iid, 0, "ok", ToMilliCelsius(raw))
                    ELSE TmpOp("zone_temp", iid, 0, "EIO", 0)]
    /\ UNCHANGED <<sysfsVars, powerVars, lockVars>>

TempProbe ==
    /\ ~tmp.hwmon.reg
    /\ \E fail \in {"none", "query", "alloc", "hwmon"},
          failAt \in {-1} \cup {c \in Channels : U16And(tmp.avail, c)} :
       \E r \in {ssam_temp_probe(tmp.avail, fail, failAt, tmp.wraps)} :
         tmp' = [tmp EXCEPT !.hwmon = r.hwmon,
                            !.top = TmpOp("temp_probe", 0, 0, r.ret, 0)]
    /\ UNCHANGED <<sysfsVars, powerVars, lockVars>>

\* the hwmon driver unbound (devm releases the hwmon device)
TempRemove ==
    /\ tmp.hwmon.reg
    /\ tmp' = [tmp EXCEPT !.hwmon = NoHwmon,
                          !.top = TmpOp("temp_remove", 0, 0, "ok", 0)]
    /\ UNCHANGED <<sysfsVars, powerVars, lockVars>>

\* ssam_temp_hwmon_read on a channel the hwmon core shows
TempHwmonRead ==
    /\ tmp.hwmon.reg
    /\ \E channel \in tmp.hwmon.visible, raw \in RawTemps, ok \in BOOLEAN :
         tmp' = [tmp EXCEPT !.top =
                    IF ok THEN TmpOp("hwmon_read", channel + 1, channel, "ok",
                                     ToMilliCelsius(raw))
                    ELSE TmpOp("hwmon_read", channel + 1, channel, "EIO", 0)]
    /\ UNCHANGED <<sysfsVars, powerVars, lockVars>>

ThermalNext ==
    \/ ThermalSensorProbe
    \/ ThermalSensorRemove
    \/ ThermalGetTemp
    \/ TempProbe
    \/ TempRemove
    \/ TempHwmonRead

------------------------------------------------------------------------------
(***************************************************************************)
(* bat->lock: the operations on one battery statement by statement, each   *)
(* running in its own thread.  A program is the sequence of the lock       *)
(* operations and of the accesses to the cached state that the operation   *)
(* performs; mid marks a statement that runs after the STA of an update    *)
(* has been stored and before its BIX / BST have.                          *)
(***************************************************************************)
St(k, f, mid) == [k |-> k, f |-> f, mid |-> mid]

Lock == St("lock", "lock", FALSE)

Unlock == St("unlock", "lock", FALSE)

Rd(f) == St("read", f, FALSE)

Wr(f) == St("write", f, FALSE)

WrMid(f) == St("write", f, TRUE)

\* spwr_battery_update_bst_unlocked(bat, false) / (bat, true) after the window
update_bst_steps ==
    <<Rd("timestamp"), Wr("sta"), WrMid("bst"), Wr("timestamp")>>

update_bix_steps ==
    <<Wr("sta"), WrMid("bix"), WrMid("bst"), Wr("timestamp")>>

recheck_steps ==
    <<Rd("sta"), Rd("bix"), Lock>> \o update_bix_steps
        \o <<Unlock, Rd("sta"), Rd("bix")>>

unregister_steps ==
    <<St("unreg", "notif", FALSE), St("drain", "psy", FALSE),
      St("destroy", "lock", FALSE)>>

register_steps ==
    update_bix_steps \o <<St("init", "lock", FALSE), St("reg", "notif", FALSE)>>

Programs ==
    [get_property        |-> <<Lock>> \o update_bst_steps
                                \o <<Rd("sta"), Rd("bst"), Rd("alarm"), Unlock>>,
     get_property_cached |-> <<Lock, Rd("timestamp"), Rd("sta"), Rd("bst"),
                               Rd("alarm"), Unlock>>,
     alarm_show          |-> <<Rd("alarm")>>,
     alarm_store         |-> <<Rd("sta"), Lock, Wr("alarm"), Unlock>>,
     notify_adapter      |-> <<Rd("bix"), Rd("bst")>>,
     notify_bst          |-> <<Lock>> \o update_bst_steps \o <<Unlock>>,
     workfn              |-> <<Lock>> \o update_bst_steps \o <<Unlock>>,
     recheck             |-> recheck_steps,
     recheck_readd       |-> recheck_steps \o unregister_steps \o register_steps]

\* user space (power-supply class and the alarm attribute), the event
\* dispatcher, the workqueue and the resume callback
Threads == {"user", "notify", "work", "resume"}

ThreadPrograms ==
    [user   |-> {"get_property", "get_property_cached", "alarm_show",
                 "alarm_store"},
     notify |-> {"notify_adapter", "notify_bst", "recheck", "recheck_readd"},
     work   |-> {"workfn"},
     resume |-> {"recheck"}]

Idle == [prog |-> "none", i |-> 0, waits |-> FALSE]

NoAcc == [t |-> "none", f |-> "none", write |-> FALSE, held |-> TRUE,
          torn |-> FALSE]

\* a registered battery nobody is using
LockIdle ==
    [owner |-> "none", alive |-> TRUE, reg |-> TRUE,
     pc |-> [t \in Threads |-> Idle], acc |-> NoAcc, fault |-> {}]

Running(t) == lk.pc[t].prog # "none"

NextStep(t) == Programs[lk.pc[t].prog][lk.pc[t].i]

\* thread t is between the STA store and the BIX / BST stores of an update
MidUpdate(t) == Running(t) /\ NextStep(t).mid

\* the position after the statement just executed
Advance(t) ==
    IF lk.pc[t].i = Len(Programs[lk.pc[t].prog]) THEN Idle
    ELSE [lk.pc[t] EXCEPT !.i = @ + 1, !.waits = FALSE]

\* an operation is called; user space, events and work need the battery
\* registered, resume only the device bound
LockCall ==
    /\ lk.fault = {}
    /\ \E t \in Threads, prog \in DOMAIN Programs :
         /\ ~Running(t)
         /\ prog \in ThreadPrograms[t]
         /\ t # "resume" => lk.reg
         /\ lk' = [lk EXCEPT !.pc[t] = [prog |-> prog, i |-> 1, waits |-> FALSE]]
    /\ UNCHANGED <<sysfsVars, powerVars, thermalVars>>

\* mutex_lock: taken when free, else the thread waits inside the call
MutexLock ==
    /\ lk.fault = {}
    /\ \E t \in Threads :
         /\ Running(t) /\ NextStep(t).k = "lock"
         /\ IF ~lk.alive
            THEN lk' = [lk EXCEPT !.fault = @ \cup {"lock_destroyed"}]
            ELSE IF lk.owner = "none"
            THEN lk' = [lk EXCEPT !.owner = t, !.pc[t] = Advance(t)]
            ELSE /\ ~lk.pc[t].waits
                 /\ lk' = [lk EXCEPT !.pc[t].waits = TRUE]
    /\ UNCHANGED <<sysfsVars, powerVars, thermalVars>>

MutexUnlock ==
    /\ lk.fault = {}
    /\ \E t \in Threads :
         /\ Running(t) /\ NextStep(t).k = "unlock"
         /\ lk' = [lk EXCEPT !.owner = "none", !.pc[t] = Advance(t)]
    /\ UNCHANGED <<sysfsVars, powerVars, thermalVars>>

\* a read or write of sta, bix, bst, alarm or timestamp
Access ==
    /\ lk.fault = {}
    /\ \E t \in Threads :
         /\ Running(t) /\ NextStep(t).k \in {"read", "write"}
         /\ lk' = [lk EXCEPT
                !.acc = [t |-> t, f |-> NextStep(t).f,
                         write |-> NextStep(t).k = "write",
                         held |-> lk.owner = t,
                         torn |-> \E u \in Threads \ {t} : MidUpdate(u)],
                !.pc[t] = Advance(t)]
    /\ UNCHANGED <<sysfsVars, powerVars, thermalVars>>

\* spwr_battery_unregister up to power_supply_unregister: the notifier is
\* removed; cancel_delayed_work_sync and the removal of the sysfs files
\* wait for the work and the user-space calls that are running
Unregister ==
    /\ lk.fault = {}
    /\ \E t \in Threads :
         /\ Running(t) /\ NextStep(t).k \in {"unreg", "drain"}
         /\ NextStep(t).k = "drain" => ~Running("user") /\ ~Running("work")
         /\ lk' = [lk EXCEPT !.reg = FALSE, !.pc[t] = Advance(t)]
    /\ UNCHANGED <<sysfsVars, powerVars, thermalVars>>

\* mutex_destroy at the end of spwr_battery_unregister
MutexDestroy ==
    /\ lk.fault = {}
    /\ \E t \in Threads :
         /\ Running(t) /\ NextStep(t).k = "destroy"
         /\ lk' = [lk EXCEPT
                !.alive = FALSE,
                !.fault = @ \cup (IF lk.owner # "none" THEN {"destroy_held"} ELSE {})
                            \cup (IF \E u \in Threads : lk.pc[u].waits
                                  THEN {"destroy_waited"} ELSE {}),
                !.pc[t] = Advance(t)]
    /\ UNCHANGED <<sysfsVars, powerVars, thermalVars>>

\* mutex_init and the registrations in spwr_battery_register
Register ==
    /\ lk.fault = {}
    /\ \E t \in Threads :
         /\ Running(t) /\ NextStep(t).k \in {"init", "reg"}
         /\ lk' = [lk EXCEPT
                !.alive = IF NextStep(t).k = "init" THEN TRUE ELSE @,
                !.owner = IF NextStep(t).k = "init" THEN "none" ELSE @,
                !.fault = IF NextStep(t).k = "init" /\ lk.owner # "none"
                          THEN @ \cup {"init_held"} ELSE @,
                !.reg = IF NextStep(t).k = "reg" THEN TRUE ELSE @,
                !.pc[t] = Advance(t)]
    /\ UNCHANGED <<sysfsVars, powerVars, thermalVars>>

LockNext ==
    \/ LockCall
    \/ MutexLock
    \/ MutexUnlock
    \/ Access
    \/ Unregister
    \/ MutexDestroy
    \/ Register

LockInit ==
    /\ SysfsInit /\ charSigned = TRUE /\ PowerInit /\ clock.jiffies = 1
    /\ tmp = ThermalIdle(0, TRUE)
    /\ lk = LockIdle

LockSpec == LockInit /\ [][LockNext]_vars

\* the thermal clients alone, on either build and for each bitfield
ThermalInit ==
    /\ SysfsInit /\ charSigned = TRUE /\ PowerInit /\ clock.jiffies = 1
    /\ tmp \in {ThermalIdle(a, w) : a \in SensorVals, w \in BOOLEAN}
    /\ lk = LockIdle

ThermalSpec == ThermalInit /\ [][ThermalNext]_vars

------------------------------------------------------------------------------
\* the battery in use: queries, events, the delayed work, resume and the
\* passing of time
BatteryNext ==
    \/ Tick
    \/ BatProbe
    \/ GetProperty
    \/ Resume
    \/ Dispatch
    \/ WorkRun

\* the power clients start unbound on a fixed build; Tick takes the counter
\* through every value before and after the probe
BatteryInit ==
    /\ SysfsInit /\ charSigned = TRUE /\ PowerInit /\ clock.jiffies = 1
    /\ tmp = ThermalIdle(0, TRUE)
    /\ lk = LockIdle

BatterySpec == BatteryInit /\ [][BatteryNext]_vars

\* both clients coming and going while events arrive
LifecycleNext ==
    \/ BatProbe
    \/ AcProbe
    \/ Dispatch
    \/ WorkRun
    \/ BatRemoveStep
    \/ AcRemoveStep

LifecycleSpec == BatteryInit /\ [][LifecycleNext]_vars

\* the registration of the battery with events arriving while it is under way
RegisterNext ==
    \/ BatRegisterBegin
    \/ BatRegisterEnd
    \/ AcProbe
    \/ Dispatch
    \/ WorkRun
    \/ BatRemoveStep
    \/ AcRemoveStep

RegisterSpec == BatteryInit /\ [][RegisterNext]_vars

\* the battery registered again by a recheck (resume, BIX event), and the
\* remove that follows
ReregisterNext ==
    \/ BatProbe
    \/ Resume
    \/ Dispatch
    \/ BatRemoveStep

ReregisterSpec == BatteryInit /\ [][ReregisterNext]_vars

\* the alarm attribute in use next to queries and resume
AlarmNext ==
    \/ BatProbe
    \/ GetProperty
    \/ Resume
    \/ AlarmStore
    \/ AlarmShow

AlarmSpec == BatteryInit /\ [][AlarmNext]_vars

\* the capacities the controller reports: small ones, those around the
\* point where the product with 100 leaves the u32, and the largest
MaxCap == 12

CapVals == (0..MaxCap) \cup {CapMod \div 2, CapMod - 1}

CapScript(full, rem) ==
    [DefaultScript EXCEPT !.bix.last_full_charge_cap = full,
                          !.bst.remaining_cap = rem, !.bst.state = 0]

\* the battery as a successful probe leaves it, for each last full charge
\* capacity and remaining capacity the controller can report
CapacityInit ==
    /\ SysfsInit /\ charSigned = TRUE
    /\ tmp = ThermalIdle(0, TRUE)
    /\ lk = LockIdle
    /\ \E full \in CapVals, rem \in CapVals :
       \E g \in {spwr_battery_register(ZeroBat, CapScript(full, rem), 1)} :
         /\ bat = g.bat
         /\ breg = g.reg
         /\ nf = <<"bat">>
         /\ op = Op("bat_probe", g.st, g.reqs)
    /\ clock = [jiffies |-> 1, age |-> 0, stamped |-> TRUE]
    /\ workPending = FALSE
    /\ bdev = "bound"
    /\ rmPc = 0
    /\ ac = ZeroAc
    /\ hazard = {}
    /\ teardown = <<>>

\* the answers to a capacity query: none are asked for while the cache holds
CapQueryScripts ==
    IF CacheFresh(bat, TRUE, clock.jiffies) THEN {DefaultScript}
    ELSE {CapScript(bat.bix.last_full_charge_cap, rem) : rem \in CapVals}

\* spwr_battery_get_property for POWER_SUPPLY_PROP_CAPACITY
GetCapacity ==
    /\ NoFault
    /\ bdev = "bound"
    /\ breg.psy
    /\ \E s \in CapQueryScripts :
       \E r \in {spwr_battery_get_property(bat, "CAPACITY", s, clock.jiffies)} :
         /\ bat' = r.bat
         /\ clock' = ClockAfter(r.stamped)
         /\ op' = [Op("get_property", r.st, r.reqs)
                      EXCEPT !.psp = "CAPACITY", !.val = r.val]
    /\ UNCHANGED <<sysfsVars, thermalVars, lockVars, breg, workPending, bdev,
                   rmPc, ac, nf, hazard, teardown>>

CapacityNext ==
    \/ Tick
    \/ GetCapacity

CapacitySpec == CapacityInit /\ [][CapacityNext]_vars

\* the same, with the workqueue running every work item that stays scheduled
WorkSpec == LifecycleSpec /\ WF_vars(WorkRun)

SysfsNext ==
    \/ RqstRead
    \/ RqstWriteRejected
    \/ RqstWriteFault
    \/ RqstWriteSubmit

\* the passthrough endpoint alone, the power clients not yet probed
PassthroughInit ==
    /\ SysfsInit /\ PowerInit /\ clock.jiffies = 1
    /\ tmp = ThermalIdle(0, TRUE)
    /\ lk = LockIdle

SysfsSpec == PassthroughInit /\ [][SysfsNext]_vars

-----------------------------------------------------------------------------
(***************************************************************************)
(* Claims about the passthrough endpoint (checked under SysfsSpec)         *)
(***************************************************************************)

\* a write that the endpoint's format does not allow
Malformed(c) ==
    \/ c.offs # 0
    \/ c.count < 5
    \/ c.count > MAX_RQST_PAYLOAD + 5
    \/ c.count # 5 + c.buf[4]

\* C1: every write with a non-zero offset, fewer than 5 bytes, more than
\* MAX_RQST_PAYLOAD + 5 bytes or a size other than 5 + payload_length is
\* refused with EINVAL, submits nothing and leaves the payload, response
\* and record buffers as they were; only well-formed writes are submitted.
C1_MalformedWriteRejected ==
    [][(call'.op = "write" /\ Malformed(call'))
          => /\ call'.ret = Err("EINVAL")
             /\ ~call'.submitted
             /\ UNCHANGED <<buf_pld, buf_res, buf_sysfs>>]_vars

\* C2: after a successful write with a response of length L the record
\* buffer holds L, the L response bytes, then zeros up to index
\* MAX_RQST_RESPONSE, and nothing was written outside the buffer.
C2_ResponseRecordStored ==
    (call.op = "write" /\ call.ret.ok) =>
        /\ buf_sysfs[0] = call.ec.len
        /\ \A i \in 1..call.ec.len : buf_sysfs[i] = ResByte(call.ec.q, i - 1)
        /\ \A i \in (call.ec.len + 1)..MAX_RQST_RESPONSE : buf_sysfs[i] = 0
        /\ {e \in oob : e[1] = "sysfs"} = {}

\* C3: a read of [offs, offs + count) inside the (MAX_RQST_RESPONSE + 1)-byte
\* record returns exactly those bytes; a range reaching beyond the record
\* is refused with EINVAL and copies nothing.
C3_ReadReturnsRecord ==
    (call.op = "read" /\ call.offs >= 0) =>
        IF call.offs + call.count <= MAX_RQST_RESPONSE + 1
        THEN /\ call.ret = Ok(call.count)
             /\ call.out = [j \in 1..call.count |-> buf_sysfs[call.offs + j - 1]]
        ELSE /\ call.ret = Err("EINVAL")
             /\ call.out = <<>>

\* C10: the request handed to the controller carries bytes 0..4 of the
\* write as category, id, command, flags and payload length, the bytes
\* after them as payload, and a response capacity of MAX_RQST_RESPONSE.
C10_RequestFromWrite ==
    call.submitted =>
        /\ call.rqst.tc = call.buf[0]
        /\ call.rqst.iid = call.buf[1]
        /\ call.rqst.cid = call.buf[2]
        /\ call.rqst.snc = call.buf[3]
        /\ call.rqst.cdl = call.buf[4]
        /\ call.rqst.pld = [j \in 1..call.buf[4] |-> call.buf[5 + j - 1]]
        /\ call.rqst.cap = MAX_RQST_RESPONSE

\* a full-size payload was submitted, with header bytes above 127
C10_Witness ==
    /\ call.submitted
    /\ call.rqst.cdl = MAX_RQST_PAYLOAD
    /\ call.rqst.tc = 129
    /\ call.ret.ok

(***************************************************************************)
(* Claims about the battery and AC clients                                 *)
(***************************************************************************)
\* C4: in the battery and AC probes a bind that fails with ENXIO is
\* reported as EPROBE_DEFER, every other bind error is returned unchanged,
\* and in both cases no request is sent and nothing is registered or changed
C4_BindFailureReported ==
    [][(op'.name \in {"bat_probe", "ac_probe"} /\ op'.bind # "ok") =>
         /\ op'.ret = (IF op'.bind = "ENXIO" THEN "EPROBE_DEFER" ELSE op'.bind)
         /\ op'.reqs = <<>>
         /\ UNCHANGED <<bat, breg, bdev, ac, nf, workPending>>]_vars

C4_Witness ==
    /\ op.name = "bat_probe"
    /\ op.bind = "ENXIO"
    /\ op.ret = "EPROBE_DEFER"
    /\ nf = <<"ac">>

\* C5: a get_property call within the cache window after the last
\* successful update sends no request, whatever the tick at which the update
\* was stamped; a call after the window sends STA first (and BST when the
\* battery is present)
C5_CachedWithinWindow ==
    [][op'.name = "get_property" =>
         IF clock.stamped /\ clock.age < CacheJiffies
         THEN op'.reqs = <<>> /\ bat' = bat
         ELSE /\ op'.reqs # <<>>
              /\ Head(op'.reqs) = "sta"
              /\ (op'.ret = "ok" /\ spwr_battery_present(bat') =>
                    op'.reqs = <<"sta", "bst">>)]_vars

\* C6: when unregister has returned the client's notifier is off the list
\* and no update work is pending, nothing of the client is touched after it
\* is gone, and the battery is torn down notifier, work, file, power supply,
\* lock
C6_TeardownComplete ==
    /\ bdev = "unbound" => ~InSeq(nf, "bat") /\ ~workPending
    /\ ac.dev = "unbound" => ~InSeq(nf, "ac")
    /\ op.name = "bat_remove" =>
         teardown = <<"notif", "work", "file", "psy", "lock">>
    /\ "bat_use_after_unregister" \notin hazard
    /\ "ac_use_after_unregister" \notin hazard

C6_Witness ==
    /\ op.name = "bat_remove"
    /\ bdev = "unbound"
    /\ nf = <<"ac">>

\* the adapter event as the AC client receives it
AdapterEvent == Ev(SAM_EVENT_PWR_CID_ADAPTER, BatChannel, 0)

\* C7: with the battery and the AC client both registered, an adapter event
\* (command 0x17, instance 0) is delivered to both handlers, in whichever
\* order they were registered
C7_AdapterEventReachesBoth ==
    (/\ op.name = "event"
     /\ op.ev = AdapterEvent
     /\ InSeq(nf, "bat")
     /\ InSeq(nf, "ac"))
    => InSeq(op.called, "bat") /\ InSeq(op.called, "ac")

\* C8: every state update asks STA first; while the battery is absent no
\* BIX or BST request is sent and the cached BIX and BST stay as they were;
\* get_property then returns ENODEV for every property but PRESENT, and
\* PRESENT returns 0
C8_AbsenceByPresenceQuery ==
    [][/\ op'.reqs # <<>> => Head(op'.reqs) = "sta"
       /\ (/\ op'.name \in {"get_property", "work", "event", "resume"}
           /\ ~op'.readd
           /\ ~spwr_battery_present(bat'))
          => /\ ~InSeq(op'.reqs, "bix")
             /\ ~InSeq(op'.reqs, "bst")
             /\ bat'.bix = bat.bix
             /\ bat'.bst = bat.bst
       /\ (/\ op'.name = "get_property"
           /\ ~spwr_battery_present(bat')
           /\ op'.ret # "EIO")
          => IF op'.psp = "PRESENT"
             THEN op'.ret = "ok" /\ op'.val = IntVal(0)
             ELSE op'.ret = "ENODEV"]_vars

C8_Witness ==
    /\ op.name = "get_property"
    /\ op.psp = "STATUS"
    /\ op.ret = "ENODEV"
    /\ op.reqs = <<"sta">>
    /\ bat.bix # ZeroBix
    /\ bat.bst # ZeroBst

\* the update of a resume got through STA, BIX and BST
ResumeUpdated(o) == o.ret = "ok" \/ InSeq(o.reqs, "btp") \/ o.readd

BatHandles(ev) ==
    \/ ev.cid = SAM_EVENT_PWR_CID_ADAPTER
    \/ /\ ev.cid \in {SAM_EVENT_PWR_CID_BIX, SAM_EVENT_PWR_CID_BST}
       /\ ev.chn = BatChannel
       /\ ev.iid = BatInstance

AcHandles(ev) == ev.cid = SAM_EVENT_PWR_CID_ADAPTER /\ ev.iid = 0

\* C11: the battery handler answers handled for every adapter event and for
\* its own BIX and BST events, the AC handler for the adapter event of
\* instance 0; every other event is passed through without a request or a
\* change of state; a handled answer carries the error of a failed update
C11_HandlerClassification ==
    [][op'.name = "event" =>
         /\ Len(op'.rets) = Len(op'.called)
         /\ \A i \in 1..Len(op'.called) :
              LET c == op'.called[i]
                  r == op'.rets[i]
              IN  /\ r.handled = (IF c = "bat" THEN BatHandles(op'.ev)
                                  ELSE AcHandles(op'.ev))
                  /\ ~r.handled => r.err = "ok"
                  /\ (r.handled /\ c = "ac") =>
                        (r.err = "ok") = ("ac" \in op'.chg)
                  /\ (r.handled /\ c = "bat"
                        /\ op'.ev.cid # SAM_EVENT_PWR_CID_ADAPTER
                        /\ r.err # "never") =>
                        (r.err = "ok") = ("bat" \in op'.chg)
         /\ (\A i \in 1..Len(op'.rets) : ~op'.rets[i].handled) =>
              /\ op'.reqs = <<>>
              /\ op'.chg = {}
              /\ UNCHANGED <<bat, breg, bdev, ac, nf, workPending, clock,
                             hazard>>]_vars

C11_Witness ==
    /\ op.name = "event"
    /\ op.ev = Ev(SAM_EVENT_PWR_CID_ADAPTER, BatChannel + 1, BatInstance)
    /\ op.called = <<"ac", "bat">>
    /\ op.rets = <<[handled |-> FALSE, err |-> "ok"],
                   [handled |-> TRUE, err |-> "ok"]>>

\* the delayed update has run, has been cancelled by an unregister, or the
\* run has ended in a fault
WorkSettled == ~workPending \/ ~NoFault

\* C12: on an adapter event the battery handler sends no request and
\* schedules the delayed update exactly when remaining_cap >= 
\* last_full_charge_cap; scheduled work that is not cancelled by an
\* unregister eventually runs one uncached STA/BST update and signals
\* power_supply_changed exactly when the update succeeded
C12_FollowUpWork ==
    /\ [][/\ (/\ op'.name = "event"
              /\ op'.ev.cid = SAM_EVENT_PWR_CID_ADAPTER
              /\ InSeq(op'.called, "bat"))
             => /\ op'.reqs = <<>>
                /\ bat' = bat
                /\ workPending' =
                     (workPending
                        \/ bat.bst.remaining_cap >= bat.bix.last_full_charge_cap)
          /\ op'.name = "work"
             => /\ workPending
                /\ ~workPending'
                /\ op'.reqs \in {<<"sta">>, <<"sta", "bst">>}
                /\ (op'.chg = {"bat"}) = (op'.ret = "ok")
                /\ op'.chg \subseteq {"bat"}
          /\ (workPending /\ ~workPending')
             => \/ op'.name = "work"
                \/ op'.name \in {"bat_unregister", "bat_remove", "bat_probe"}]_vars
    /\ (workPending ~> WorkSettled)

C12_Witness ==
    /\ op.name = "work"
    /\ op.ret = "ok"
    /\ op.reqs = <<"sta", "bst">>
    /\ op.chg = {"bat"}
    /\ ~workPending

\* the last request of the operation recorded in o is the one that failed
\* during the state update
UpdateFailed(o) ==
    /\ o.name \in {"get_property", "work", "resume", "event"}
    /\ o.fail \in {"sta", "bix", "bst"}
    /\ o.reqs # <<>>
    /\ o.reqs[Len(o.reqs)] = o.fail
    /\ ~o.readd

\* C13: a request that fails during a battery state update makes the caller
\* (get_property, work, event handler, resume) return the error and leaves
\* the timestamp as it was; power_supply_changed is signalled only after an
\* update that succeeded in full, which is also the only way the timestamp
\* advances
C13_FailedUpdateNotCached ==
    [][/\ UpdateFailed(op') =>
            /\ IF op'.name = "event"
               THEN \E i \in 1..Len(op'.rets) :
                       op'.called[i] = "bat" /\ op'.rets[i].err = "EIO"
               ELSE op'.ret = "EIO"
            /\ bat'.timestamp = bat.timestamp
            /\ op'.chg = {}
            /\ CacheFresh(bat', TRUE, clock'.jiffies) =>
                 CacheFresh(bat, TRUE, clock.jiffies)
       /\ "bat" \in op'.chg =>
            /\ op'.fail \notin {"sta", "bix", "bst"} \/ ~InSeq(op'.reqs, op'.fail)
            /\ bat'.timestamp = clock.jiffies
       /\ (op'.name \in {"get_property", "work", "resume", "event"}
             /\ bat'.timestamp # bat.timestamp) =>
            ~UpdateFailed(op')]_vars

C13_Witness ==
    /\ op.name = "get_property"
    /\ op.fail = "bst"
    /\ op.ret = "EIO"
    /\ op.reqs = <<"sta", "bst">>
    /\ clock.age >= CacheJiffies
    /\ bat.timestamp # clock.jiffies

\* C14: when spwr_battery_register or spwr_ac_register has returned an
\* error, no notifier and no power supply of the client is registered and
\* no battery-update work is scheduled, also when an event was delivered
\* between the registration of the notifier and the failing step
C14_FailedRegisterReleasesAll ==
    /\ (op.name = "bat_probe" /\ op.ret # "ok") =>
          /\ ~InSeq(nf, "bat")
          /\ ~breg.psy
          /\ ~breg.lock
          /\ ~workPending
    /\ (op.name = "ac_probe" /\ op.ret # "ok") =>
          /\ ~InSeq(nf, "ac")
          /\ ~ac.psy
          /\ ~ac.lock

\* bit k of the 16-bit available-sensors bitfield the controller reports
AvailBit(k) == k >= 0 /\ k < 16 /\ BitSet(tmp.avail, 2 ^ k)

\* C15: the per-sensor driver accepts instance i only if i >= 1 and bit
\* i - 1 of the bitfield is set, and returns the no-device error without a
\* thermal zone for instance 0 or a clear bit; hwmon channel c (0..15) is
\* visible exactly when bit c is set, its name is fetched with instance
\* c + 1 and its temperature is read with instance c + 1
C15_SensorNumbering ==
    /\ \A i \in tmp.zones : i >= 1 /\ AvailBit(i - 1)
    /\ (tmp.top.name = "sensor_probe" /\ tmp.top.ret = "ok") =>
          (tmp.top.iid >= 1 /\ AvailBit(tmp.top.iid - 1))
    /\ (tmp.top.name = "sensor_probe"
          /\ (tmp.top.iid = 0 \/ ~AvailBit(tmp.top.iid - 1))) =>
          (tmp.top.ret \in {"ENODEV", "EIO"} /\ tmp.top.iid \notin tmp.zones)
    /\ tmp.hwmon.reg =>
          /\ tmp.hwmon.visible = {c \in Channels : AvailBit(c)}
          /\ \A c \in tmp.hwmon.visible : tmp.hwmon.names[c] = c + 1
    /\ tmp.top.name = "hwmon_read" => tmp.top.iid = tmp.top.chan + 1

\* C16: over probe, BIX events, resume and remove, spwr_battery_unregister
\* is never applied to a battery that is not registered, also after a
\* recheck has unregistered it and the registration that follows failed
C16_UnregisterOnlyRegistered ==
    "double_unregister" \notin hazard

\* C17: the battery handler never takes its own notifier off the list (or
\* puts it back) while the dispatcher is inside it: after an event the
\* handler was invoked for, a BIX event with a changed power unit included,
\* the notifier is registered as before and the handler has returned
C17_HandlerKeepsOwnNotifier ==
    (op.name = "event" /\ InSeq(op.called, "bat")) =>
        /\ InSeq(nf, "bat")
        /\ "deadlock" \notin hazard

\* C19: when the controller request of rqst_write fails, the write returns
\* that error and the record buffer is as it was, so that a read returns
\* the bytes of the last record stored (all zeros when there was none)
C19_FailedWriteKeepsRecord ==
    [][/\ (call'.op = "write" /\ call'.submitted /\ call'.ec.status # "ok")
            => /\ call'.ret = Err(call'.ec.status)
               /\ buf_sysfs' = buf_sysfs
       /\ (call'.op = "read" /\ call'.ret.ok)
            => /\ buf_sysfs' = buf_sysfs
               /\ call'.out = [j \in 1..call'.count |->
                                  buf_sysfs[call'.offs + j - 1]]]_vars

\* a failed request after a record has been stored
C19_Witness ==
    /\ call.op = "write" /\ call.submitted /\ call.ec.status # "ok"
    /\ buf_sysfs[0] # 0

\* the operation o ended with a trip-point request the controller refused
TripPointRefused(o) ==
    /\ o.name \in {"alarm_store", "resume"}
    /\ ~o.readd
    /\ o.fail = "btp"
    /\ o.ret = "EIO"
    /\ Len(o.reqs) > 0
    /\ o.reqs[Len(o.reqs)] = "btp"

\* C20: the cached alarm is the last trip point the controller accepted:
\* when the set-trip-point request fails the error is returned and the
\* cached alarm, as alarm show and the LOW capacity level use it, is the
\* one from before
C20_AlarmIsAcceptedTripPoint ==
    [][TripPointRefused(op') => bat'.alarm = bat.alarm]_vars

\* C18: under any interleaving of get_property, event handlers, the delayed
\* work, alarm show / store and resume on a registered battery, every read
\* or write of sta, bix, bst, alarm and timestamp is made holding bat->lock,
\* no reader sees STA refreshed with BIX / BST of an earlier update, and the
\* lock is never destroyed or initialised while a thread holds or waits
\* for it
C18_StateAccessUnderLock ==
    /\ lk.acc.held
    /\ ~lk.acc.torn
    /\ lk.fault = {}

\* C21: for all values of remaining capacity and last full charge capacity,
\* spwr_battery_prop_capacity returns 0 when either is 0 and otherwise the
\* quotient floor(remaining * 100 / last_full) computed without wrap-around,
\* which lies in 0..100 whenever remaining <= last_full
C21_CapacityIsExactPercentage ==
    (op.psp = "CAPACITY" /\ op.ret = "ok") =>
        LET rem  == bat.bst.remaining_cap
            full == bat.bix.last_full_charge_cap
        IN  /\ (rem = 0 \/ full = 0) => op.val = IntVal(0)
            /\ (rem # 0 /\ full # 0) => op.val = IntVal((rem * 100) \div full)
            /\ rem <= full => op.val.int \in 0..100

=============================================================================
